---- MODULE Spec2Model ----
(***************************************************************************)
(* Authentication and session-token core of blog-api: the /auth/register,  *)
(* /auth/login and /auth/refresh-token routes (validators, validation      *)
(* middleware, handlers), the User and Token models and the JWT helpers.   *)
(*                                                                         *)
(* Requests run concurrently: every awaited database operation of a route  *)
(* is one atomic step, together with the synchronous code that follows it  *)
(* up to the next await.                                                   *)
(***************************************************************************)
EXTENDS Integers, Sequences, FiniteSets, TLC

VARIABLES users, tokens, now, nextId, req, jar, env, userDoc, proc

vars == <<users, tokens, now, nextId, req, jar, env, userDoc, proc>>

----------------------------------------------------------------------------
(* Bounds of the model *)

MaxReq == 2
MaxUsers == 2
MaxSignals == 2
MaxAccepted == 3
MaxTokens == 2
MaxTime == 2
MaxName == 2

Reqs == 1..MaxReq

----------------------------------------------------------------------------
(* Configuration read from the environment (APP_CONFIG) *)

\* process.env.ACCESS_TOKEN_EXPIRY / JWT_REFRESH_TOKEN_EXPIRY, in clock seconds
ACCESS_TOKEN_EXPIRY == 1
JWT_REFRESH_TOKEN_EXPIRY == 2

\* strings are sequences of characters
Str_a_x == <<"a", "@", "x", ".", "c", "o">>
Str_r_x == <<"r", "@", "x", ".", "c", "o">>
Str_R_x_padded == <<"R", "@", "x", ".", "c", "o", " ">>

\* process.env.WHITELIST_ADMIN_EMAIL_LIST.split(','): the entries as they were
\* typed, neither trimmed nor lowercased
WHITELIST_ADMIN_EMAIL_LIST == env.WHITELIST_ADMIN_EMAIL_LIST

\* a user registered in an earlier run of the server, who sends no request in this
\* one; the _id is one that no user created in this run is given
CarriedUser ==
    [_id |-> MaxUsers + 1, username |-> <<"u", "s", "e", "r", "-", "0">>,
     email |-> <<"c", "@", "x", ".", "c", "o">>,
     password |-> [alg |-> "bcrypt", salt |-> 1,
                   of |-> <<"p", "a", "s", "s", "w", "o", "r", "d">>],
     role |-> "user"]

\* the row the Token Ledger holds of that user's login in the earlier run, whose
\* refresh secret was another one
CarriedRow ==
    [_id |-> 1, userId |-> CarriedUser._id,
     token |-> [kind |-> "jwt", sub |-> "refreshToken", userId |-> CarriedUser._id,
                iat |-> 0, exp |-> JWT_REFRESH_TOKEN_EXPIRY, sig |-> "k0"]]

\* the environments the server is started in: NODE_ENV, and the two JWT secrets,
\* which a deployment may set to distinct values or to the same value.  users and
\* ledger are the Credential Store and the Token Ledger the database holds when
\* the server starts.  load is the
\* traffic explored in that environment: 'serial' is one connection sending any
\* request after the other, 'concurrent' is MaxReq connections at once sending the
\* requests of one user
Environments ==
    {[NODE_ENV |-> "production", JWT_ACCESS_SECRET |-> "k1", JWT_REFRESH_SECRET |-> "k2",
      WHITELIST_ADMIN_EMAIL_LIST |-> {Str_r_x}, users |-> {CarriedUser},
      ledger |-> {CarriedRow}, load |-> "serial"],
     [NODE_ENV |-> "development", JWT_ACCESS_SECRET |-> "k1", JWT_REFRESH_SECRET |-> "k1",
      WHITELIST_ADMIN_EMAIL_LIST |-> {Str_R_x_padded}, users |-> {},
      ledger |-> {}, load |-> "serial"],
     [NODE_ENV |-> "development", JWT_ACCESS_SECRET |-> "k1", JWT_REFRESH_SECRET |-> "k2",
      WHITELIST_ADMIN_EMAIL_LIST |-> {Str_r_x}, users |-> {},
      ledger |-> {}, load |-> "concurrent"]}

----------------------------------------------------------------------------
(* String helpers (String.prototype.trim / toLowerCase, validator.js) *)

RECURSIVE trimStart(_)
trimStart(s) ==
    IF s # <<>> /\ Head(s) = " " THEN trimStart(Tail(s)) ELSE s

RECURSIVE trimEnd(_)
trimEnd(s) ==
    IF s # <<>> /\ s[Len(s)] = " " THEN trimEnd(SubSeq(s, 1, Len(s) - 1)) ELSE s

trim(s) == trimEnd(trimStart(s))

lowerChar(c) ==
    CASE c = "A" -> "a"
      [] c = "R" -> "r"
      [] OTHER -> c

toLowerCase(s) == [i \in 1..Len(s) |-> lowerChar(s[i])]

\* validator.js isEmail, on the alphabet of the model: one "@", a non-empty
\* local part, a dotted domain with non-empty labels, no blanks
isEmail(s) ==
    /\ Cardinality({i \in 1..Len(s) : s[i] = "@"}) = 1
    /\ \A i \in 1..Len(s) : s[i] # " "
    /\ LET at == CHOOSE i \in 1..Len(s) : s[i] = "@"
       IN /\ at > 1
          /\ \E d \in (at + 2)..(Len(s) - 1) : s[d] = "."

----------------------------------------------------------------------------
(* bcrypt *)

MaxSalt == 1

NoPassword == [alg |-> "", salt |-> 0, of |-> <<>>]

\* a value stored without hashing
plaintext(p) == [alg |-> "plain", salt |-> 0, of |-> p]

\* hash(p, 10) with the salt bcrypt drew
hash(p, salt) == [alg |-> "bcrypt", salt |-> salt, of |-> p]

\* compare(p, stored): false for a mismatch and for a stored value that is no hash
compare(p, stored) == stored.alg = "bcrypt" /\ stored.of = p

\* hash(v, 10) of the string a field holds: of a plain text its hash, of a hash
\* string the hash of that string, which no plain text matches
hashValue(v, salt) ==
    IF v.alg = "plain" THEN hash(v.of, salt)
    ELSE [alg |-> "bcrypt(bcrypt)", salt |-> salt, of |-> v.of]

----------------------------------------------------------------------------
(* jsonwebtoken and lib/jwt *)

NoToken == [kind |-> "none", sub |-> "", userId |-> 0, iat |-> 0, exp |-> 0, sig |-> ""]

\* a cookie value that is not three base64url segments
Garbage == [kind |-> "garbage", sub |-> "", userId |-> 0, iat |-> 0, exp |-> 0, sig |-> ""]

\* jwt.sign({ userId }, secret, { expiresIn, subject }) at clock second t (HS256 is
\* deterministic: equal payload, times and secret give the equal string)
sign(userId, secret, expiresIn, subject, t) ==
    [kind |-> "jwt", sub |-> subject, userId |-> userId,
     iat |-> t, exp |-> t + expiresIn, sig |-> secret]

\* verification that does not look at exp
M_verify_ignoreExpiration(token, secret, t) ==
    IF token.kind # "jwt" \/ token.sig # secret
    THEN [ok |-> FALSE, error |-> "JsonWebTokenError", payload |-> NoToken]
    ELSE [ok |-> TRUE, error |-> "", payload |-> token]

\* jwt.verify(token, secret) at clock second t: signature first, then expiry; no
\* subject option is passed, so the sub claim is not looked at
verify(token, secret, t) ==
    IF token.kind # "jwt" \/ token.sig # secret
    THEN [ok |-> FALSE, error |-> "JsonWebTokenError", payload |-> NoToken]
    ELSE IF t >= token.exp
    THEN [ok |-> FALSE, error |-> "TokenExpiredError", payload |-> NoToken]
    ELSE [ok |-> TRUE, error |-> "", payload |-> token]

generateAccessToken(userId, t) ==
    sign(userId, env.JWT_ACCESS_SECRET, ACCESS_TOKEN_EXPIRY, "accessApi", t)

\* a refresh token that is in fact the access token
M_generateRefreshToken_accessToken(userId, t) ==
    sign(userId, env.JWT_ACCESS_SECRET, ACCESS_TOKEN_EXPIRY, "accessApi", t)

generateRefreshToken(userId, t) ==
    sign(userId, env.JWT_REFRESH_SECRET, JWT_REFRESH_TOKEN_EXPIRY, "refreshToken", t)

verifyAccessToken(token, t) == verify(token, env.JWT_ACCESS_SECRET, t)

\* verification of a refresh token with the secret of the other kind
M_verifyRefreshToken_accessSecret(token, t) == verify(token, env.JWT_ACCESS_SECRET, t)

verifyRefreshToken(token, t) == verify(token, env.JWT_REFRESH_SECRET, t)

\* validator.js isJWT: three dot-separated base64url segments
isJWT(token) == token.kind = "jwt"

----------------------------------------------------------------------------
(* Errors thrown by the persistence layer *)

NoError == [name |-> "", message |-> "", dupKey |-> NoToken]

\* MongoServerError E11000: the message names the index and quotes the duplicate
\* key value (dupKey holds the quoted token, when the index is on token)
DuplicateKeyError(index, key) ==
    [name |-> "MongoServerError",
     message |-> "E11000 duplicate key error index: " \o index,
     dupKey |-> key]

ValidationError(path) ==
    [name |-> "ValidationError",
     message |-> "User validation failed: " \o path,
     dupKey |-> NoToken]

\* the driver's error when the connection to the server is lost during a write
MongoNetworkError ==
    [name |-> "MongoNetworkError", message |-> "connection closed", dupKey |-> NoToken]

\* what awaiting a write can yield: the collection's answer, or the driver's rejection
WriteOutcomes == {"answered", "MongoNetworkError"}

\* the result of an awaited write under an outcome
write(outcome, result) ==
    IF outcome = "MongoNetworkError"
    THEN [result EXCEPT !.ok = FALSE, !.error = MongoNetworkError]
    ELSE result

----------------------------------------------------------------------------
(* models/user.model.ts *)

NoUser == [_id |-> 0, username |-> <<>>, email |-> <<>>, password |-> NoPassword, role |-> ""]

\* schema setters of email (trim, lowercase); they also run on query filters
castEmail(email) == toLowerCase(trim(email))

\* a default of 'admin'
M_castRole_defaultAdmin(role) == IF role = "" THEN "admin" ELSE role

\* role: default 'user' when the field is undefined ("" here)
castRole(role) == IF role = "" THEN "user" ELSE role

\* schema validators, run on the document before the pre-save hook; "" when valid
validateUser(doc) ==
    IF Len(doc.username) < 3 \/ Len(doc.username) > 20 THEN "username"
    ELSE IF doc.email = <<>> \/ Len(doc.email) > 50 THEN "email"
    ELSE IF Len(doc.password) < 6 THEN "password"
    ELSE IF doc.role \notin {"user", "admin"} THEN "role"
    ELSE ""

\* the hook without the hashing
M_preSave_keepsPlaintext(password, isModified, salt) == password

\* a hook that hashes on every save
M_preSave_hashesAlways(password, isModified, salt) == hashValue(password, salt)

\* userSchema.pre('save'): hashes the password when it was modified (always, for a
\* new document)
preSave(password, isModified, salt) ==
    IF ~isModified THEN password ELSE hashValue(password, salt)

\* UserModel.findOne({ email }) / UserModel.exists({ email })
findUsers(email) == {u \in users : u.email = castEmail(email)}

findOneUser(email) ==
    IF findUsers(email) = {} THEN NoUser ELSE CHOOSE u \in findUsers(email) : TRUE

existsUser(email) == findUsers(email) # {}

\* UserModel.create({ email, password, role, username }): cast, validate, pre-save
\* hook, insert under the unique indexes on email and username
createUser(email, password, role, username, id, salt) ==
    LET doc == [username |-> username, email |-> castEmail(email),
                password |-> password, role |-> castRole(role)]
        bad == validateUser(doc)
        row == [_id |-> id, username |-> doc.username, email |-> doc.email,
                password |-> preSave(plaintext(password), TRUE, salt), role |-> doc.role]
    IN IF bad # "" THEN [ok |-> FALSE, error |-> ValidationError(bad), doc |-> NoUser]
       ELSE IF \E u \in users : u.email = row.email
       THEN [ok |-> FALSE, error |-> DuplicateKeyError("email_1", NoToken), doc |-> NoUser]
       ELSE IF \E u \in users : u.username = row.username
       THEN [ok |-> FALSE, error |-> DuplicateKeyError("username_1", NoToken), doc |-> NoUser]
       ELSE [ok |-> TRUE, error |-> NoError, doc |-> row]

----------------------------------------------------------------------------
(* models/token.model.ts *)

\* a lookup that finds a row whatever the token
M_existsToken_anyToken(token) == TRUE

\* TokenModel.exists({ token })
existsToken(token) == \E row \in tokens : row.token = token

\* an insert into a collection without the unique index on token
M_saveToken_noUniqueIndex(userId, token) ==
    [ok |-> TRUE, error |-> NoError,
     row |-> [_id |-> Cardinality(tokens) + 1, userId |-> userId, token |-> token]]

\* a save that files the token under another user's id
M_saveToken_otherOwner(userId, token) ==
    IF existsToken(token)
    THEN [ok |-> FALSE, error |-> DuplicateKeyError("token_1", token),
          row |-> [_id |-> 0, userId |-> userId, token |-> token]]
    ELSE [ok |-> TRUE, error |-> NoError,
          row |-> [_id |-> Cardinality(tokens) + 1, userId |-> userId + 1, token |-> token]]

\* new TokenModel({ userId, token }).save(): insert of a document with an _id of
\* its own, under the unique index on token
saveToken(userId, token) ==
    IF existsToken(token)
    THEN [ok |-> FALSE, error |-> DuplicateKeyError("token_1", token),
          row |-> [_id |-> 0, userId |-> userId, token |-> token]]
    ELSE [ok |-> TRUE, error |-> NoError,
          row |-> [_id |-> Cardinality(tokens) + 1, userId |-> userId, token |-> token]]

----------------------------------------------------------------------------
(* utils: generateUserName, 'user-' followed by the random base-36 suffix *)

UserNames == {<<"u", "s", "e", "r", "-", ToString(n)>> : n \in 1..MaxName}

----------------------------------------------------------------------------
(* Responses *)

NoErrors == [f \in {} |-> [msg |-> "", value |-> <<>>]]

NoProjection == [_id |-> 0, username |-> <<>>, email |-> <<>>, role |-> ""]

\* a JSON body; a key the body does not have holds the empty value of its type
NoBody ==
    [status |-> "", code |-> "", message |-> "", error |-> NoError, errors |-> NoErrors,
     user |-> NoProjection, accessToken |-> NoToken, data |-> NoToken]

NoCookie == [name |-> "", value |-> NoToken, httpOnly |-> FALSE, secure |-> FALSE, sameSite |-> ""]

\* sent counts the responses written, nextError is next(error) reaching the
\* router's error handling, cleared is the refreshToken cookie being cleared
NoResponse ==
    [sent |-> 0, status |-> 0, body |-> NoBody, cookie |-> NoCookie, nextError |-> FALSE,
     cleared |-> FALSE]

\* res.cookie('refreshToken', refreshToken, { httpOnly, secure, sameSite })
refreshCookie(token) ==
    [name |-> "refreshToken", value |-> token, httpOnly |-> TRUE,
     secure |-> (env.NODE_ENV = "production"), sameSite |-> "strict"]

\* res.status(status).json(body)
json(res, status, body) ==
    [res EXCEPT !.sent = @ + 1,
                !.status = IF res.sent = 0 THEN status ELSE @,
                !.body = IF res.sent = 0 THEN body ELSE @]

\* error.message as the catch blocks put it in the body
errorMessage(error) == [error EXCEPT !.name = ""]

----------------------------------------------------------------------------
(* Requests *)

Idle ==
    [kind |-> "idle", via |-> "", pc |-> "idle",
     email |-> <<>>, password |-> <<>>, role |-> "", cookie |-> NoToken,
     errors |-> NoErrors, username |-> <<>>, user |-> NoUser,
     accessToken |-> NoToken, refreshToken |-> NoToken,
     res |-> NoResponse,
     \* history of the request, for the properties: the email was not registered
     \* and the cookie was one the client had been given, when the request began;
     \* the cookie was a row of the ledger when the handler looked it up;
     \* verifyRefreshToken was called
     fresh |-> FALSE, issued |-> FALSE, found |-> FALSE, verified |-> FALSE,
     handled |-> FALSE, wroteUser |-> FALSE, wroteToken |-> FALSE,
     at |-> 0]

\* the request as it is once the response is written
done(q, status, body) == [q EXCEPT !.pc = "done", !.res = json(q.res, status, body), !.at = now]

\* ValidationChain: mapped() keeps the first error of a field
addError(errors, field, msg, value) ==
    IF msg = "" \/ field \in DOMAIN errors THEN errors
    ELSE [f \in DOMAIN errors \cup {field} |->
            IF f = field THEN [msg |-> msg, value |-> value] ELSE errors[f]]

----------------------------------------------------------------------------
(* validation/common.ts and the cookie chain of routes/v1/auth.ts *)

\* emailValidationForRegistration: the first failing validator's message
emailValidationForRegistration(email) ==
    IF email = <<>> THEN "Email is required"
    ELSE IF Len(email) < 5 THEN "Email must be at least 5 characters long"
    ELSE IF ~isEmail(email) THEN "Email must be a valid email address"
    ELSE IF existsUser(email) THEN "Email already exists"
    ELSE ""

\* emailValidationForLogin
emailValidationForLogin(email) ==
    IF email = <<>> THEN "Email is required"
    ELSE IF Len(email) < 5 THEN "Email must be at least 5 characters long"
    ELSE IF ~isEmail(email) THEN "Email must be a valid email address"
    ELSE IF ~existsUser(email) THEN "Email or password is incorrect"
    ELSE ""

\* passwordValidation, the chain both routes use; email is req.body.email
passwordValidation(password, email) ==
    IF password = <<>> THEN "Password is required"
    ELSE IF Len(password) < 8 THEN "Password must be at least 8 characters long"
    ELSE IF findOneUser(email) = NoUser THEN "Email or password is incorrect"
    ELSE IF ~compare(password, findOneUser(email).password)
    THEN "Email or password is incorrect"
    ELSE ""

\* roleValidation: optional, then isIn(['user', 'admin'])
roleValidation(role) ==
    IF role = "" THEN ""
    ELSE IF role \notin {"user", "admin"} THEN "Role must be either \"user\" or \"admin\""
    ELSE ""

\* cookie('refreshToken').notEmpty().isJWT()
cookieValidation(cookie) ==
    IF cookie = NoToken THEN "Refresh token is required"
    ELSE IF ~isJWT(cookie) THEN "Invalid refresh token format"
    ELSE ""

----------------------------------------------------------------------------
(* Handlers: the synchronous code from the handler's entry to its first await *)

\* registerUser without the admin allowlist check
M_registerUserEntry_noAllowlist(q, username) ==
    [q EXCEPT !.handled = TRUE, !.username = username, !.pc = "create"]

\* registerUser: the admin allowlist check, then generateUserName()
registerUserEntry(q, username) ==
    IF q.role = "admin" /\ q.email \notin WHITELIST_ADMIN_EMAIL_LIST
    THEN done([q EXCEPT !.handled = TRUE], 403,
              [NoBody EXCEPT !.status = "AuthorizationError",
                             !.message = "You are not allowed to register as an admin."])
    ELSE [q EXCEPT !.handled = TRUE, !.username = username, !.pc = "create"]

\* loginHandler
loginHandlerEntry(q) == [q EXCEPT !.handled = TRUE, !.pc = "findUser"]

\* refreshTokenHandler: the missing-cookie check
refreshTokenHandlerEntry(q) ==
    IF q.cookie = NoToken
    THEN done([q EXCEPT !.handled = TRUE], 401,
              [NoBody EXCEPT !.message = "Invalid or expired refresh token",
                             !.status = "error", !.code = "AuthenticationError"])
    ELSE [q EXCEPT !.handled = TRUE, !.pc = "exists"]

handlerEntry(q, username) ==
    CASE q.kind = "register" -> registerUserEntry(q, username)
      [] q.kind = "login" -> loginHandlerEntry(q)
      [] q.kind = "refresh" -> refreshTokenHandlerEntry(q)

----------------------------------------------------------------------------
(* Inputs of the clients *)

Str_password == <<"p", "a", "s", "s", "w", "o", "r", "d">>
Str_passwor == <<"p", "a", "s", "s", "w", "o", "r">>
Str_passw0rd == <<"p", "a", "s", "s", "w", "0", "r", "d">>

EmailInputs(kind) ==
    IF env.load = "serial" THEN {Str_a_x, Str_r_x, Str_R_x_padded}
    ELSE IF kind = "login" THEN {Str_a_x, Str_r_x}
    ELSE {Str_a_x}
PasswordInputs(kind) ==
    IF env.load = "serial" THEN {Str_password, Str_passwor}
    ELSE IF kind = "login" THEN {Str_password, Str_passw0rd}
    ELSE {Str_password}
RoleInputs == IF env.load = "serial" THEN {"", "user", "admin"} ELSE {""}

\* what a client can put in the refreshToken cookie: a token it was given in a
\* cookie, nothing, a string that is no JWT, a token signed with a key of its own,
\* an access token, and a well-signed refresh token of the first user issued now
\* (in the ledger or not), and a token of an earlier run of the server
CookieInputs ==
    IF env.load = "serial"
    THEN jar \cup {row.token : row \in env.ledger}
             \cup {NoToken, Garbage,
                   sign(1, "forged", JWT_REFRESH_TOKEN_EXPIRY, "refreshToken", now),
                   generateAccessToken(1, now),
                   generateRefreshToken(1, now)}
    ELSE jar \cup {generateRefreshToken(1, now)}

\* 'route': through the chain AuthRouter mounts; 'handler': the exported handler
\* invoked on the parsed request, as when it is mounted without validators
Vias == {"route", "handler"}

----------------------------------------------------------------------------
(* Initial state: the stores of the environment, the clock at 0 *)

\* the process once the startup of server.ts is over: connected, the routes
\* mounted, listening, no signal received
ServerUp ==
    [pc |-> "listening", uri |-> "mongodb", db |-> "connected",
     mounted |-> TRUE, listening |-> TRUE, exited |-> FALSE, code |-> 0,
     signals |-> 0, shutdown |-> [k \in 1..MaxSignals |-> "idle"],
     accepted |-> 0, open |-> 0, established |-> TRUE, connectFailed |-> FALSE]

\* no hydrated User document is held outside the handlers
NoDocument ==
    [password |-> NoPassword, stored |-> NoPassword, isModified |-> FALSE,
     role |-> "", plain |-> <<>>, saves |-> 0]

Init ==
    /\ env \in Environments
    /\ users = env.users
    /\ tokens = env.ledger
    /\ now = 0
    /\ nextId = 1
    /\ req = [r \in Reqs |-> Idle]
    /\ jar = {}
    /\ userDoc = NoDocument
    /\ proc = ServerUp

\* requests take the free slot of the lowest number
Connections == IF env.load = "serial" THEN 1 ELSE MaxReq

free(r) ==
    /\ r <= Connections
    /\ req[r].kind = "idle"
    /\ \A s \in 1..(r - 1) : req[s].kind # "idle"

begin(q, username) ==
    IF q.via = "handler" THEN handlerEntry(q, username)
    ELSE [q EXCEPT !.pc = IF q.kind = "refresh" THEN "vCookie" ELSE "vEmail"]

\* POST /auth/register
StartRegister(r) ==
    /\ free(r)
    /\ \E via \in Vias, email \in EmailInputs("register"),
          password \in PasswordInputs("register"),
          role \in RoleInputs, username \in UserNames :
         req' = [req EXCEPT ![r] =
                   begin([Idle EXCEPT !.kind = "register", !.via = via, !.email = email,
                                      !.password = password, !.role = role,
                                      !.fresh = ~existsUser(email)], username)]
    /\ UNCHANGED <<users, tokens, now, nextId, jar, env, userDoc, proc>>

\* POST /auth/login
StartLogin(r) ==
    /\ free(r)
    /\ \E via \in Vias, email \in EmailInputs("login"), password \in PasswordInputs("login") :
         req' = [req EXCEPT ![r] =
                   begin([Idle EXCEPT !.kind = "login", !.via = via, !.email = email,
                                      !.password = password,
                                      !.fresh = ~existsUser(email)], <<>>)]
    /\ UNCHANGED <<users, tokens, now, nextId, jar, env, userDoc, proc>>

\* POST /auth/refresh-token
StartRefresh(r) ==
    /\ free(r)
    /\ \E via \in Vias, cookie \in CookieInputs :
         req' = [req EXCEPT ![r] =
                   begin([Idle EXCEPT !.kind = "refresh", !.via = via,
                                      !.cookie = cookie,
                                      !.issued = cookie \in jar], <<>>)]
    /\ UNCHANGED <<users, tokens, now, nextId, jar, env, userDoc, proc>>

----------------------------------------------------------------------------
(* The validation chains, each a middleware of the route *)

\* emailValidationForRegistration / emailValidationForLogin: trim() rewrites
\* req.body.email, then the validators run on the trimmed value
ValidateEmail(r) ==
    /\ req[r].pc = "vEmail"
    /\ LET q == req[r]
           email == trim(q.email)
           msg == IF q.kind = "register" THEN emailValidationForRegistration(email)
                  ELSE emailValidationForLogin(email)
       IN req' = [req EXCEPT ![r] =
                    [q EXCEPT !.email = email,
                              !.errors = addError(q.errors, "email", msg, email),
                              !.pc = "vPassword"]]
    /\ UNCHANGED <<users, tokens, now, nextId, jar, env, userDoc, proc>>

\* passwordValidation
ValidatePassword(r) ==
    /\ req[r].pc = "vPassword"
    /\ LET q == req[r]
           msg == passwordValidation(q.password, q.email)
       IN req' = [req EXCEPT ![r] =
                    [q EXCEPT !.errors = addError(q.errors, "password", msg, q.password),
                              !.pc = IF q.kind = "register" THEN "vRole" ELSE "mw"]]
    /\ UNCHANGED <<users, tokens, now, nextId, jar, env, userDoc, proc>>

\* roleValidation
ValidateRole(r) ==
    /\ req[r].pc = "vRole"
    /\ LET q == req[r]
       IN req' = [req EXCEPT ![r] =
                    [q EXCEPT !.errors = addError(q.errors, "role", roleValidation(q.role),
                                                  <<q.role>>),
                              !.pc = "mw"]]
    /\ UNCHANGED <<users, tokens, now, nextId, jar, env, userDoc, proc>>

\* the cookie chain of /refresh-token
ValidateCookie(r) ==
    /\ req[r].pc = "vCookie"
    /\ LET q == req[r]
           msg == cookieValidation(q.cookie)
       IN req' = [req EXCEPT ![r] =
                    [q EXCEPT !.errors =
                                IF msg = "" THEN q.errors
                                ELSE [f \in {"refreshToken"} |->
                                        [msg |-> msg, value |-> q.cookie]],
                              !.pc = "mw"]]
    /\ UNCHANGED <<users, tokens, now, nextId, jar, env, userDoc, proc>>

\* a middleware that calls next() whatever the validators found
M_expressValidationMiddleware_alwaysNext(r) ==
    /\ req[r].pc = "mw"
    /\ \E username \in UserNames :
         req' = [req EXCEPT ![r] = handlerEntry(req[r], username)]
    /\ UNCHANGED <<users, tokens, now, nextId, jar, env, userDoc, proc>>

\* expressValidationMiddleware: 400 with errors.mapped(), or next(), which runs the
\* handler up to its first await
expressValidationMiddleware(r) ==
    /\ req[r].pc = "mw"
    /\ \E username \in UserNames :
         LET q == req[r]
         IN req' = [req EXCEPT ![r] =
                      IF DOMAIN q.errors # {}
                      THEN done(q, 400, [NoBody EXCEPT !.errors = q.errors])
                      ELSE handlerEntry(q, username)]
    /\ UNCHANGED <<users, tokens, now, nextId, jar, env, userDoc, proc>>

----------------------------------------------------------------------------
(* controllers/v1/auth/auth.controller.ts: registerUser *)

\* the catch block of registerUser
registerUserCatch(q, error) ==
    done(q, 500, [NoBody EXCEPT !.status = "ServerError",
                                !.message = "Internal server error",
                                !.error = errorMessage(error)])

\* await UserModel.create(...), then the two tokens are generated
RegisterCreateUser(r) ==
    /\ req[r].pc = "create"
    /\ \E salt \in 1..MaxSalt, outcome \in WriteOutcomes :
         LET q == req[r]
             c == write(outcome,
                        createUser(q.email, q.password, q.role, q.username, nextId, salt))
         IN IF c.ok
            THEN /\ Cardinality(users \ env.users) < MaxUsers
                 /\ users' = users \cup {c.doc}
                 /\ nextId' = nextId + 1
                 /\ req' = [req EXCEPT ![r] =
                              [q EXCEPT !.user = c.doc, !.wroteUser = TRUE,
                                        !.accessToken = generateAccessToken(c.doc._id, now),
                                        !.refreshToken = generateRefreshToken(c.doc._id, now),
                                        !.pc = "saveToken"]]
            ELSE /\ req' = [req EXCEPT ![r] = registerUserCatch(q, c.error)]
                 /\ UNCHANGED <<users, nextId>>
    /\ UNCHANGED <<tokens, now, jar, env, userDoc, proc>>

\* the 200 response of registerUser: the cookie, then the body
registerUserSuccess(q) ==
    done([q EXCEPT !.wroteToken = TRUE, !.res.cookie = refreshCookie(q.refreshToken)],
         200,
         [NoBody EXCEPT !.user = [NoProjection EXCEPT !.username = q.user.username,
                                                      !.email = q.user.email,
                                                      !.role = q.user.role],
                        !.accessToken = q.accessToken])

\* await tokenDocumentToSave.save(), then the cookie and the 200 response
RegisterSaveToken(r) ==
    /\ req[r].pc = "saveToken"
    /\ req[r].kind = "register"
    /\ \E outcome \in WriteOutcomes :
       LET q == req[r]
           s == write(outcome, saveToken(q.user._id, q.refreshToken))
       IN IF s.ok
          THEN /\ Cardinality(tokens \ env.ledger) < MaxTokens
               /\ tokens' = tokens \cup {s.row}
               /\ jar' = jar \cup {q.refreshToken}
               /\ req' = [req EXCEPT ![r] = registerUserSuccess(q)]
          ELSE /\ req' = [req EXCEPT ![r] = registerUserCatch(q, s.error)]
               /\ UNCHANGED <<tokens, jar>>
    /\ UNCHANGED <<users, now, nextId, env, userDoc, proc>>

----------------------------------------------------------------------------
(* controllers/v1/auth/login.controller.ts: loginHandler *)

\* a 401 that hands out an access token for the email it was asked about
M_login401_issuesToken(q) ==
    done([q EXCEPT !.accessToken = generateAccessToken(findOneUser(q.email)._id, now)],
         401, [NoBody EXCEPT !.message = "Email or password is incorrect"])

login401(q) == done(q, 401, [NoBody EXCEPT !.message = "Email or password is incorrect"])

\* the catch block of loginHandler: the 500 response, then next(error)
loginHandlerCatch(q, error) ==
    [done(q, 500, [NoBody EXCEPT !.message = "Internal server error",
                                 !.error = errorMessage(error)])
       EXCEPT !.res.nextError = TRUE]

\* a login that sets the cookie as soon as the token is generated, before the save
M_LoginFindUser_cookieBeforeSave(r) ==
    /\ req[r].pc = "findUser"
    /\ LET q == req[r]
           user == findOneUser(q.email)
       IN req' = [req EXCEPT ![r] =
                    IF user = NoUser THEN login401(q)
                    ELSE IF ~compare(q.password, user.password) THEN login401(q)
                    ELSE [q EXCEPT !.user = user,
                                   !.accessToken = generateAccessToken(user._id, now),
                                   !.refreshToken = generateRefreshToken(user._id, now),
                                   !.res.cookie =
                                      refreshCookie(generateRefreshToken(user._id, now)),
                                   !.pc = "saveToken"]]
    /\ UNCHANGED <<users, tokens, now, nextId, jar, env, userDoc, proc>>

\* await UserModel.findOne({ email }), await compare(...), then the two tokens
LoginFindUser(r) ==
    /\ req[r].pc = "findUser"
    /\ LET q == req[r]
           user == findOneUser(q.email)
       IN req' = [req EXCEPT ![r] =
                    IF user = NoUser THEN login401(q)
                    ELSE IF ~compare(q.password, user.password) THEN login401(q)
                    ELSE [q EXCEPT !.user = user,
                                   !.accessToken = generateAccessToken(user._id, now),
                                   !.refreshToken = generateRefreshToken(user._id, now),
                                   !.pc = "saveToken"]]
    /\ UNCHANGED <<users, tokens, now, nextId, jar, env, userDoc, proc>>

\* the 200 response of loginHandler: the cookie, then the body
loginHandlerSuccess(q) ==
    done([q EXCEPT !.wroteToken = TRUE, !.res.cookie = refreshCookie(q.refreshToken)],
         200,
         [NoBody EXCEPT !.user = [NoProjection EXCEPT !._id = q.user._id,
                                                      !.email = q.user.email,
                                                      !.role = q.user.role,
                                                      !.username = q.user.username],
                        !.accessToken = q.accessToken,
                        !.message = "Login successful"])

\* await tokenDocumentToSave.save(), then the cookie and the 200 response
LoginSaveToken(r) ==
    /\ req[r].pc = "saveToken"
    /\ req[r].kind = "login"
    /\ \E outcome \in WriteOutcomes :
       LET q == req[r]
           s == write(outcome, saveToken(q.user._id, q.refreshToken))
       IN IF s.ok
          THEN /\ Cardinality(tokens \ env.ledger) < MaxTokens
               /\ tokens' = tokens \cup {s.row}
               /\ jar' = jar \cup {q.refreshToken}
               /\ req' = [req EXCEPT ![r] = loginHandlerSuccess(q)]
          ELSE /\ req' = [req EXCEPT ![r] = loginHandlerCatch(q, s.error)]
               /\ UNCHANGED <<tokens, jar>>
    /\ UNCHANGED <<users, now, nextId, env, userDoc, proc>>

----------------------------------------------------------------------------
(* controllers/v1/auth/token.controller.ts: refreshTokenHandler *)

\* a 401 body without the code
M_refresh401_noCode(q, message) ==
    done(q, 401, [NoBody EXCEPT !.message = message, !.status = "error"])

\* a 401 that also overwrites the client's refreshToken cookie
M_refresh401_setsCookie(q, message) ==
    done([q EXCEPT !.res.cookie = refreshCookie(NoToken)], 401,
         [NoBody EXCEPT !.message = message, !.status = "error",
                        !.code = "AuthenticationError"])

refresh401(q, message) ==
    done(q, 401, [NoBody EXCEPT !.message = message, !.status = "error",
                                !.code = "AuthenticationError"])

\* a refresh that uses the row up: the row is deleted when the token is accepted
M_RefreshLookup_consumesRow(r) ==
    /\ req[r].pc = "exists"
    /\ LET q == [req[r] EXCEPT !.found = existsToken(req[r].cookie)]
           v == verifyRefreshToken(q.cookie, now)
       IN req' = [req EXCEPT ![r] =
                    IF ~existsToken(q.cookie)
                    THEN refresh401(q, "Invalid or expired refresh token")
                    ELSE IF v.error = "TokenExpiredError"
                    THEN refresh401(q, "Refresh token has expired")
                    ELSE IF v.error = "JsonWebTokenError"
                    THEN refresh401(q, "Invalid refresh token")
                    ELSE done([q EXCEPT !.accessToken =
                                           generateAccessToken(v.payload.userId, now)],
                              200,
                              [NoBody EXCEPT !.message = "Access token refreshed successfully",
                                             !.status = "success", !.code = "Success",
                                             !.data = generateAccessToken(v.payload.userId, now)])]
    /\ tokens' = IF existsToken(req[r].cookie) /\ verifyRefreshToken(req[r].cookie, now).ok
                 THEN {row \in tokens : row.token # req[r].cookie}
                 ELSE tokens
    /\ UNCHANGED <<users, now, nextId, jar, env, userDoc, proc>>

\* a refresh that verifies the token before it looks it up in the ledger
M_RefreshLookup_verifiesFirst(r) ==
    /\ req[r].pc = "exists"
    /\ LET q == [req[r] EXCEPT !.found = existsToken(req[r].cookie), !.verified = TRUE]
           v == verifyRefreshToken(q.cookie, now)
       IN req' = [req EXCEPT ![r] =
                    IF v.error = "TokenExpiredError"
                    THEN refresh401(q, "Refresh token has expired")
                    ELSE IF v.error = "JsonWebTokenError"
                    THEN refresh401(q, "Invalid refresh token")
                    ELSE IF ~existsToken(q.cookie)
                    THEN refresh401(q, "Invalid or expired refresh token")
                    ELSE done([q EXCEPT !.accessToken =
                                           generateAccessToken(v.payload.userId, now)],
                              200,
                              [NoBody EXCEPT !.message = "Access token refreshed successfully",
                                             !.status = "success", !.code = "Success",
                                             !.data = generateAccessToken(v.payload.userId, now)])]
    /\ UNCHANGED <<users, tokens, now, nextId, jar, env, userDoc, proc>>

\* await TokenModel.exists({ token }), then verifyRefreshToken, generateAccessToken
\* and the response; the catch block maps the two jsonwebtoken errors to 401
RefreshLookup(r) ==
    /\ req[r].pc = "exists"
    /\ LET q == [req[r] EXCEPT !.found = existsToken(req[r].cookie),
                               !.verified = existsToken(req[r].cookie)]
           v == verifyRefreshToken(q.cookie, now)
       IN req' = [req EXCEPT ![r] =
                    IF ~existsToken(q.cookie)
                    THEN refresh401(q, "Invalid or expired refresh token")
                    ELSE IF v.error = "TokenExpiredError"
                    THEN refresh401(q, "Refresh token has expired")
                    ELSE IF v.error = "JsonWebTokenError"
                    THEN refresh401(q, "Invalid refresh token")
                    ELSE done([q EXCEPT !.accessToken =
                                           generateAccessToken(v.payload.userId, now)],
                              200,
                              [NoBody EXCEPT !.message = "Access token refreshed successfully",
                                             !.status = "success", !.code = "Success",
                                             !.data = generateAccessToken(v.payload.userId, now)])]
    /\ UNCHANGED <<users, tokens, now, nextId, jar, env, userDoc, proc>>

----------------------------------------------------------------------------
(* controllers/v1/auth/logout.controller.ts: logoutHandler, /logout is mounted
   without a validation chain *)

\* POST /auth/logout: the client's refreshToken cookie is cleared and the answer is
\* 200; the Token Ledger is not touched
Logout(r) ==
    /\ free(r)
    /\ \E cookie \in CookieInputs :
         req' = [req EXCEPT ![r] =
                   done([Idle EXCEPT !.kind = "logout", !.via = "route", !.cookie = cookie,
                                     !.issued = cookie \in jar, !.handled = TRUE,
                                     !.res.cleared = TRUE],
                        200, NoBody)]
    /\ UNCHANGED <<users, tokens, now, nextId, jar, env, userDoc, proc>>

----------------------------------------------------------------------------
(* The environment of the requests *)

\* the response has reached the client: the slot is free again
Finish(r) ==
    /\ req[r].pc = "done"
    /\ req' = [req EXCEPT ![r] = Idle]
    /\ UNCHANGED <<users, tokens, now, nextId, jar, env, userDoc, proc>>

\* the clock, in the seconds of the iat and exp claims
Tick ==
    /\ now < MaxTime
    /\ now' = now + 1
    /\ UNCHANGED <<users, tokens, nextId, req, jar, env, userDoc, proc>>

Next ==
    \/ \E r \in Reqs : StartRegister(r)
    \/ \E r \in Reqs : StartLogin(r)
    \/ \E r \in Reqs : StartRefresh(r)
    \/ \E r \in Reqs : ValidateEmail(r)
    \/ \E r \in Reqs : ValidatePassword(r)
    \/ \E r \in Reqs : ValidateRole(r)
    \/ \E r \in Reqs : ValidateCookie(r)
    \/ \E r \in Reqs : expressValidationMiddleware(r)
    \/ \E r \in Reqs : RegisterCreateUser(r)
    \/ \E r \in Reqs : RegisterSaveToken(r)
    \/ \E r \in Reqs : LoginFindUser(r)
    \/ \E r \in Reqs : LoginSaveToken(r)
    \/ \E r \in Reqs : RefreshLookup(r)
    \/ \E r \in Reqs : Logout(r)
    \/ \E r \in Reqs : Finish(r)
    \/ Tick

Spec == Init /\ [][Next]_vars

----------------------------------------------------------------------------
(* models/user.model.ts: the saves of one User document.  userDoc.password is the
   field of the hydrated document, userDoc.stored the field of the row in the
   collection, userDoc.isModified is this.isModified('password'), userDoc.plain the
   plain text that was assigned last *)

MaxSaves == 5

\* new UserModel({ email, password, role, username }): every path that was given
\* is modified
InitSave ==
    /\ users = {} /\ tokens = {} /\ now = 0 /\ nextId = 1 /\ jar = {}
    /\ proc = ServerUp
    /\ req = [r \in Reqs |-> Idle]
    /\ env \in {e \in Environments : e.load = "concurrent"}
    /\ \E p \in {Str_password, Str_passwor, Str_passw0rd}, role \in {"", "user", "admin"} :
         userDoc = [NoDocument EXCEPT !.password = plaintext(p), !.plain = p,
                                  !.isModified = TRUE, !.role = castRole(role)]

\* userDoc.password = p: the path is modified when the value is another one
SetPassword ==
    /\ \E p \in {Str_password, Str_passwor, Str_passw0rd} :
         userDoc' = [userDoc EXCEPT !.password = plaintext(p), !.plain = p,
                            !.isModified = userDoc.isModified \/ userDoc.password # plaintext(p)]
    /\ UNCHANGED <<users, tokens, now, nextId, req, jar, env, proc>>

\* userDoc.role = role: another path than password
SetRole ==
    /\ \E role \in {"user", "admin"} : userDoc' = [userDoc EXCEPT !.role = role]
    /\ UNCHANGED <<users, tokens, now, nextId, req, jar, env, proc>>

\* userDoc.save(): validation, the pre-save hook, the write; no path is modified
\* afterwards
SaveDocument ==
    /\ userDoc.saves < MaxSaves
    /\ Len(userDoc.password.of) >= 6
    /\ \E salt \in 1..MaxSalt :
         LET password == preSave(userDoc.password, userDoc.isModified, salt)
         IN userDoc' = [userDoc EXCEPT !.password = password, !.stored = password,
                               !.isModified = FALSE, !.saves = @ + 1]
    /\ UNCHANGED <<users, tokens, now, nextId, req, jar, env, proc>>

NextSave ==
    \/ SetPassword
    \/ SetRole
    \/ SaveDocument

SpecSave == InitSave /\ [][NextSave]_vars

----------------------------------------------------------------------------
(* server.ts and lib/mongoose.ts: the startup of the process and its shutdown on
   SIGINT and SIGTERM.  proc holds the process: pc is where the startup stands, db
   the connection of mongoose, shutdown[k] the invocation of shutdown() for the
   k-th signal, accepted and open the requests the listening server has taken
   and not yet answered; established and connectFailed record how
   connectToDatabase settled *)

\* how mongoose.connect and mongoose.disconnect settle: they resolve, or reject
\* with an Error of the driver (every rejection of mongoose is an instance of
\* Error)
ConnectOutcomes == {"connected", "Error"}
DisconnectOutcomes == {"disconnected", "Error"}

\* connectToDatabase: throws when MONOGO_URI is not set; rethrows an Error that
\* mongoose.connect rejected with, and returns normally otherwise
connectToDatabase(uri, outcome) ==
    IF uri = "" THEN "rejected"
    ELSE IF outcome = "connected" THEN "resolved"
    ELSE IF outcome = "Error" THEN "rejected"
    ELSE "resolved"

\* disconnectFromDatabase: rethrows an Error that mongoose.disconnect rejected
\* with, and returns normally otherwise
disconnectFromDatabase(outcome) ==
    IF outcome = "disconnected" THEN "resolved"
    ELSE IF outcome = "Error" THEN "rejected"
    ELSE "resolved"

\* the module is loaded: the middlewares are in place, the async function has
\* called connectToDatabase and awaits it, the two signal handlers are registered
InitServer ==
    /\ users = {} /\ tokens = {} /\ now = 0 /\ nextId = 1 /\ jar = {}
    /\ req = [r \in Reqs |-> Idle]
    /\ env \in {e \in Environments : e.load = "concurrent"}
    /\ userDoc = NoDocument
    /\ \E uri \in {"", "mongodb"} :
         proc = [ServerUp EXCEPT !.pc = "connecting", !.uri = uri, !.db = "none",
                                 !.mounted = FALSE, !.listening = FALSE,
                                 !.established = FALSE]

\* a startup whose catch only logs: the routes are mounted and the server listens
\* whatever connectToDatabase did
M_Startup_listensAnyway ==
    /\ proc.pc = "connecting" /\ ~proc.exited
    /\ \E outcome \in ConnectOutcomes :
         LET c == connectToDatabase(proc.uri, outcome)
         IN proc' = [proc EXCEPT !.pc = "listening",
                                 !.db = IF c = "resolved" THEN "connected" ELSE @,
                                 !.established = (c = "resolved"),
                                 !.connectFailed = (c = "rejected"),
                                 !.mounted = TRUE, !.listening = TRUE]
    /\ UNCHANGED <<users, tokens, now, nextId, req, jar, env, userDoc>>

\* the async function of server.ts once connectToDatabase has settled:
\* app.use('/api/v1', v1Router) and app.listen, or the catch and process.exit(1)
Startup ==
    /\ proc.pc = "connecting" /\ ~proc.exited
    /\ \E outcome \in ConnectOutcomes :
         LET c == connectToDatabase(proc.uri, outcome)
         IN proc' = IF c = "resolved"
                    THEN [proc EXCEPT !.pc = "listening",
                                      !.db = IF outcome = "connected" THEN "connected" ELSE @,
                                      !.established = (outcome = "connected"),
                                      !.mounted = TRUE, !.listening = TRUE]
                    ELSE [proc EXCEPT !.pc = "exited", !.connectFailed = TRUE,
                                      !.exited = TRUE, !.code = 1]
    /\ UNCHANGED <<users, tokens, now, nextId, req, jar, env, userDoc>>

\* SIGINT or SIGTERM: the handler calls shutdown(), which runs up to its await of
\* disconnectFromDatabase
Signal ==
    /\ ~proc.exited
    /\ proc.signals < MaxSignals
    /\ proc' = [proc EXCEPT !.signals = @ + 1,
                            !.shutdown[proc.signals + 1] = "disconnecting"]
    /\ UNCHANGED <<users, tokens, now, nextId, req, jar, env, userDoc>>

\* shutdown() once disconnectFromDatabase has settled: process.exit(0), or the
\* catch, which logs the error and returns
Shutdown(k) ==
    /\ ~proc.exited
    /\ proc.shutdown[k] = "disconnecting"
    /\ \E outcome \in DisconnectOutcomes :
         proc' = IF disconnectFromDatabase(outcome) = "resolved"
                 THEN [proc EXCEPT !.shutdown[k] = "exited",
                                   !.db = IF outcome = "disconnected"
                                          THEN "disconnected" ELSE @,
                                   !.pc = "exited", !.exited = TRUE, !.code = 0]
                 ELSE [proc EXCEPT !.shutdown[k] = "logged"]
    /\ UNCHANGED <<users, tokens, now, nextId, req, jar, env, userDoc>>

\* the listening server takes a request
Accept ==
    /\ ~proc.exited
    /\ proc.listening
    /\ proc.accepted < MaxAccepted
    /\ proc' = [proc EXCEPT !.accepted = @ + 1, !.open = @ + 1]
    /\ UNCHANGED <<users, tokens, now, nextId, req, jar, env, userDoc>>

\* a request that was taken is answered
Respond ==
    /\ ~proc.exited
    /\ proc.open > 0
    /\ proc' = [proc EXCEPT !.open = @ - 1]
    /\ UNCHANGED <<users, tokens, now, nextId, req, jar, env, userDoc>>

NextServer ==
    \/ Startup
    \/ Signal
    \/ \E k \in 1..MaxSignals : Shutdown(k)
    \/ Accept
    \/ Respond

SpecServer == InitServer /\ [][NextServer]_vars

\* the promises of mongoose settle and the event loop runs the continuations that
\* await them
SpecServerFair ==
    /\ InitServer /\ [][NextServer]_vars
    /\ WF_vars(Startup)
    /\ \A k \in 1..MaxSignals : WF_vars(Shutdown(k))

----------------------------------------------------------------------------
(* Properties *)

inLedger(token) == \E row \in tokens : row.token = token

isRegistered(email, password) ==
    \E u \in users : u.email = castEmail(email) /\ compare(password, u.password)

\* C1: a well-formed (email, password) pair, the email not yet registered and the
\* password of 8 characters or more, registers with 200 through the route
\* /auth/register, and a later login through /auth/login with the same pair gets
\* 200 and an access token that verifyAccessToken accepts.
C1_RegisterThenLogin ==
    \A r \in Reqs :
        LET q == req[r]
        IN /\ (/\ q.kind = "register" /\ q.via = "route" /\ q.pc = "done"
               /\ q.fresh /\ isEmail(trim(q.email)) /\ Len(q.password) >= 8
               /\ q.role \in {"", "user"})
              => q.res.status = 200
           /\ (/\ q.kind = "login" /\ q.via = "route" /\ q.pc = "done"
               /\ isRegistered(q.email, q.password) /\ Len(q.password) >= 8)
              => /\ q.res.status = 200
                 /\ verifyAccessToken(q.res.body.accessToken, q.at).ok

C5_KindsNotInterchangeable ==
    \A r \in Reqs :
        /\ req[r].refreshToken # NoToken
           => ~verifyAccessToken(req[r].refreshToken, req[r].refreshToken.iat).ok
        /\ req[r].accessToken # NoToken
           => ~verifyRefreshToken(req[r].accessToken, req[r].accessToken.iat).ok


\* C6: through the route /auth/login, and for any password, a login with an email
\* that is not registered gets the same status and body as a login with a
\* registered email and a wrong password.
C6_LoginEnumerationResistance ==
    \A r1, r2 \in Reqs :
        LET q1 == req[r1]
            q2 == req[r2]
        IN (/\ q1.kind = "login" /\ q1.via = "route" /\ q1.pc = "done"
            /\ q2.kind = "login" /\ q2.via = "route" /\ q2.pc = "done"
            /\ q1.password = q2.password
            /\ ~existsUser(q1.email)
            /\ ~q2.fresh /\ ~isRegistered(q2.email, q2.password))
           => /\ q1.res.status = q2.res.status
              /\ q1.res.body = q2.res.body

\* C7: every User row holds the bcrypt hash of the password that was submitted
\* and never the plaintext: the row UserModel.create writes went through the
\* pre-save hook.
C7_PasswordStoredHashed ==
    /\ \A u \in users : u.password.alg = "bcrypt"
    /\ \A r \in Reqs :
        req[r].wroteUser
        => /\ req[r].user \in users
           /\ req[r].user.password # plaintext(req[r].password)
           /\ \E salt \in 1..MaxSalt : req[r].user.password = hash(req[r].password, salt)

C7_Witness == \E r \in Reqs : req[r].wroteUser /\ req[r].res.status = 200

\* the body of the response to q holds the password, in plain text or hashed, of
\* the user q names, who was registered when q began
bodyHoldsPassword(q) ==
    \E u \in users :
        /\ u.email = castEmail(q.email) /\ ~q.fresh
        /\ \/ \E f \in DOMAIN q.res.body.errors \cap {"email", "password"} :
                 compare(q.res.body.errors[f].value, u.password)
           \/ q.res.body.error.dupKey = u.password

\* the body holds a refresh token that was issued
bodyHoldsRefreshToken(body) ==
    \E t \in jar \cup {row.token : row \in tokens} :
        \/ body.error.dupKey = t
        \/ body.accessToken = t
        \/ body.data = t

cookieFlagsRight(cookie) ==
    cookie # NoCookie
    => /\ cookie.name = "refreshToken"
       /\ cookie.httpOnly
       /\ cookie.sameSite = "strict"
       /\ cookie.secure <=> (env.NODE_ENV = "production")

\* C8: no response body of register, login or refresh-token holds a user's
\* password (plain or hashed) or a refresh token; the refresh token is only in the
\* refreshToken cookie, which is httpOnly, sameSite strict, and secure exactly when
\* NODE_ENV is production.
C8_NoSecretInBody ==
    \A r \in Reqs :
        /\ ~bodyHoldsPassword(req[r])
        /\ ~bodyHoldsRefreshToken(req[r].res.body)
        /\ cookieFlagsRight(req[r].res.cookie)

\* C9: of two registrations of one email on the route that both passed the 'email
\* already exists' validation, one gets 200 and the other the 500 of the
\* duplicate key, and one User row with that email exists afterwards.
C9_ConcurrentRegistration ==
    \A r1, r2 \in Reqs :
        LET q1 == req[r1]
            q2 == req[r2]
        IN (/\ r1 # r2
            /\ q1.kind = "register" /\ q1.via = "route" /\ q1.pc = "done"
            /\ q2.kind = "register" /\ q2.via = "route" /\ q2.pc = "done"
            /\ castEmail(q1.email) = castEmail(q2.email)
            /\ "email" \notin DOMAIN q1.errors /\ "email" \notin DOMAIN q2.errors)
           => /\ {q1.res.status, q2.res.status} = {200, 500}
              /\ Cardinality(findUsers(q1.email)) = 1

\* C10: two logins of one user with the right password, also within one clock
\* second, both get 200 and each has its own row in the Token Ledger.
C10_OneRowPerIssuance ==
    \A r1, r2 \in Reqs :
        LET q1 == req[r1]
            q2 == req[r2]
        IN (/\ r1 # r2
            /\ q1.kind = "login" /\ q1.pc = "done" /\ q1.user # NoUser
            /\ q2.kind = "login" /\ q2.pc = "done" /\ q2.user = q1.user)
           => /\ q1.res.status = 200 /\ q2.res.status = 200
              /\ inLedger(q1.refreshToken) /\ inLedger(q2.refreshToken)
              /\ q1.refreshToken # q2.refreshToken

\* C11 as stated: every User row with role admin has an email that is a member of
\* the admin allowlist, and a registration without role or with role user stores
\* role user.
C11_AdminEmailInAllowlist ==
    /\ \A u \in users : u.role = "admin" => u.email \in WHITELIST_ADMIN_EMAIL_LIST
    /\ \A r \in Reqs :
        (req[r].wroteUser /\ req[r].role \in {"", "user"}) => req[r].user.role = "user"

\* C11 amended: every User row with role admin was registered with role admin and
\* a submitted email that is a member of the admin allowlist, so that its email is
\* the trimmed, lowercased form of a member; a registration without role or with
\* role user stores role user.
C11_AdminSubmittedInAllowlist ==
    /\ \A u \in users :
        u.role = "admin" => \E e \in WHITELIST_ADMIN_EMAIL_LIST : u.email = castEmail(e)
    /\ \A r \in Reqs :
        LET q == req[r]
        IN q.wroteUser
           => /\ q.role \in {"", "user"} => q.user.role = "user"
              /\ q.user.role = "admin"
                 => /\ q.role = "admin"
                    /\ q.email \in WHITELIST_ADMIN_EMAIL_LIST
                    /\ q.user.email = castEmail(q.email)

C11_Witness ==
    \E r \in Reqs :
        /\ req[r].wroteUser /\ req[r].user.role = "admin"
        /\ req[r].user.email # req[r].email

C13_MissingCookie401 ==
    \A r \in Reqs :
        LET q == req[r]
        IN (q.kind = "refresh" /\ q.via = "route" /\ q.pc = "done" /\ q.cookie = NoToken)
           => /\ q.res.status = 401
              /\ q.res.body.code = "AuthenticationError"

\* C14: through the route /auth/login, a login with a registered email and a wrong
\* password gets 401 with the message 'Email or password is incorrect', writes no
\* Token Ledger row and gets no cookie.
C14_WrongPassword401 ==
    \A r \in Reqs :
        LET q == req[r]
        IN (/\ q.kind = "login" /\ q.via = "route" /\ q.pc = "done"
            /\ ~q.fresh /\ ~isRegistered(q.email, q.password))
           => /\ q.res.status = 401
              /\ q.res.body.message = "Email or password is incorrect"
              /\ ~q.wroteToken
              /\ q.res.cookie = NoCookie

\* a refresh request that refreshTokenHandler answered without a new access token
refreshFailed(q) ==
    q.kind = "refresh" /\ q.pc = "done" /\ q.handled /\ q.res.status # 200

C16_OneResponseNothingForwarded ==
    \A r \in Reqs :
        LET q == req[r]
        IN /\ q.res.sent <= 1
           /\ ~q.res.nextError
           /\ (q.handled /\ q.pc = "done")
              => /\ q.res.sent = 1
                 /\ q.res.status \in {200, 401, 403, 500}
                 /\ q.res.status # 200 => q.res.body.message # ""

\* the unique indexes hold: on email and on username of User, on token of Token
uniqueKeys ==
    /\ \A u1, u2 \in users :
        (u1.email = u2.email \/ u1.username = u2.username \/ u1._id = u2._id) => u1 = u2
    /\ \A t1, t2 \in tokens : (t1.token = t2.token \/ t1._id = t2._id) => t1 = t2

\* a write that the persistence layer refuses leaves both collections as they were
refusedWriteChangesNothing ==
    \A r \in Reqs :
        (req[r].pc \in {"create", "saveToken"} /\ req'[r].res.status = 500)
        => (users' = users /\ tokens' = tokens)

\* C17: in every reachable state no two User rows share an email or a username and
\* no two Token Ledger rows share a token, and a write that would break this fails
\* and leaves the store unchanged.
C17_UniqueKeys == [](uniqueKeys) /\ [][refusedWriteChangesNothing]_vars

\* a registration refused for its email and a login refused for its token
C17_Witness ==
    \E r1, r2 \in Reqs :
        /\ req[r1].kind = "register" /\ req[r1].res.status = 500
        /\ req[r1].res.body.error.message = "E11000 duplicate key error index: email_1"
        /\ req[r2].kind = "login" /\ req[r2].res.status = 500
        /\ req[r2].res.body.error.message = "E11000 duplicate key error index: token_1"
        /\ Cardinality(tokens) > 0 /\ Cardinality(users) > 0

\* no step removes or changes a row of the Token Ledger
ledgerOnlyGrows == \A row \in tokens : row \in tokens'

\* q2 is a finished logout or refresh with the token, or a login of its user
usedBy(q2, token) ==
    /\ q2.pc = "done"
    /\ \/ q2.kind \in {"logout", "refresh"} /\ q2.cookie = token
       \/ q2.kind = "login" /\ q2.res.status = 200 /\ q2.user._id = token.userId

savesHashOnlyWhenModified ==
    (userDoc'.saves = userDoc.saves + 1)
    => /\ ~userDoc.isModified => (userDoc'.password = userDoc.password /\ userDoc'.stored = userDoc.stored)
       /\ userDoc.isModified
          => /\ userDoc'.stored # userDoc.password
             /\ \E salt \in 1..MaxSalt : userDoc'.stored = hash(userDoc.plain, salt)

\* C19: the pre-save hook hashes the password exactly when the password was created
\* or modified in that save; a save that does not touch the password leaves the
\* stored hash as it is, so that the stored value is always the hash of the plain
\* text assigned last and never the hash of a hash.
C19_SaveIdempotentOnPassword ==
    /\ [][savesHashOnlyWhenModified]_vars
    /\ []((userDoc.saves > 0 /\ ~userDoc.isModified)
           => (userDoc.stored.alg = "bcrypt" /\ compare(userDoc.plain, userDoc.stored)))

\* a document saved again without touching its password
C19_Witness ==
    /\ userDoc.saves >= 2 /\ ~userDoc.isModified
    /\ userDoc.role = "admin"
    /\ compare(userDoc.plain, userDoc.stored)

\* C20: on the routes /auth/register and /auth/login, a request whose other fields
\* are valid passes validation and reaches the handler with a password of 8
\* characters, and gets 400 before the handler with a password of 7 characters.
C20_PasswordLengthBoundary ==
    \A r \in Reqs :
        LET q == req[r]
            others == /\ "email" \notin DOMAIN q.errors
                      /\ "role" \notin DOMAIN q.errors
                      /\ q.kind = "login" => isRegistered(q.email, q.password)
        IN (q.kind \in {"register", "login"} /\ q.via = "route" /\ q.pc = "done" /\ others)
           => /\ Len(q.password) = 8 => q.handled
              /\ Len(q.password) = 7 => (q.res.status = 400 /\ ~q.handled)

cookieRows(q) ==
    {row \in tokens : row.token = q.res.cookie.value /\ row.userId = q.user._id}

\* the step that answers a register or login with 200 inserts one row
insertsOneRowOn200 ==
    \A r \in Reqs :
        (/\ req[r].pc # "done" /\ req'[r].pc = "done"
         /\ req'[r].kind \in {"register", "login"} /\ req'[r].res.status = 200)
        => /\ Cardinality(tokens') = Cardinality(tokens) + 1
           /\ \E row \in tokens' \ tokens :
                 /\ tokens' = tokens \cup {row}
                 /\ row.token = req'[r].res.cookie.value
                 /\ row.userId = req'[r].user._id

\* C22: every register or login answered with 200 has inserted one Token Ledger
\* row, of the created or authenticated user and with the token of the response's
\* refreshToken cookie; the row is written before the cookie is set and before the
\* body is sent, so no response carries a cookie whose token has no row.
C22_RowBehindEveryCookie ==
    /\ [][insertsOneRowOn200]_vars
    /\ [](\A r \in Reqs :
            LET q == req[r]
            IN /\ (q.kind \in {"register", "login"} /\ q.res.status = 200)
                  => /\ q.wroteToken
                     /\ q.res.cookie.value = q.refreshToken
                     /\ q.user # NoUser
                     /\ Cardinality(cookieRows(q)) = 1
               /\ q.res.cookie # NoCookie
                  => (q.res.sent = 1 /\ cookieRows(q) # {}))

\* a register and a login answered with 200
C22_Witness ==
    \E r1, r2 \in Reqs :
        /\ req[r1].kind = "register" /\ req[r1].res.status = 200
        /\ req[r2].kind = "login" /\ req[r2].res.status = 200
        /\ Cardinality(tokens) = 2

\* a step of a refresh-token request leaves both stores as they were
refreshWritesNothing ==
    \A r \in Reqs :
        (req'[r] # req[r] /\ "refresh" \in {req[r].kind, req'[r].kind})
        => (users' = users /\ tokens' = tokens)

\* C23: a refresh-token request, whatever its outcome, leaves the Credential Store
\* and the Token Ledger unchanged and sets no cookie; on success it issues one new
\* access token and nothing else.
C23_RefreshOnlyIssuesAccessToken ==
    /\ [][refreshWritesNothing]_vars
    /\ [](\A r \in Reqs :
            LET q == req[r]
            IN q.kind = "refresh"
               => /\ q.res.cookie = NoCookie
                  /\ ~q.res.cleared
                  /\ q.refreshToken = NoToken
                  /\ ~q.wroteUser /\ ~q.wroteToken
                  /\ (q.pc = "done" /\ q.res.status = 200)
                     => /\ q.accessToken # NoToken
                        /\ q.res.body.data = q.accessToken
                  /\ (q.pc = "done" /\ q.res.status # 200)
                     => /\ q.accessToken = NoToken
                        /\ q.res.body.data = NoToken)

\* a refresh answered with 200 and one answered with 401 by the handler
C23_Witness ==
    /\ tokens # {}
    /\ \E r \in Reqs :
          /\ req[r].kind = "refresh" /\ req[r].pc = "done"
          /\ req[r].res.status = 200
    /\ \E r \in Reqs :
          /\ req[r].kind = "refresh" /\ req[r].pc = "done"
          /\ req[r].handled /\ req[r].res.status = 401

\* C24: on the routes with a validation chain the handler of register, login and
\* refresh-token runs only after every validator has passed; a request that fails
\* validation is answered with 400 and the field-mapped errors, its handler is not
\* invoked, and it produces no User row, no ledger row, no token and no cookie.
C24_HandlerOnlyAfterValidation ==
    \A r \in Reqs :
        LET q == req[r]
        IN (q.via = "route" /\ q.kind \in {"register", "login", "refresh"})
           => /\ q.handled
                 => /\ DOMAIN q.errors = {}
                    /\ q.kind \in {"register", "login"}
                       => (isEmail(q.email) /\ Len(q.password) >= 8)
                    /\ q.kind = "register" => q.role \in {"", "user", "admin"}
                    /\ q.kind = "refresh" => isJWT(q.cookie)
              /\ DOMAIN q.errors # {}
                 => /\ ~q.handled
                    /\ ~q.wroteUser /\ ~q.wroteToken
                    /\ q.user = NoUser
                    /\ q.accessToken = NoToken /\ q.refreshToken = NoToken
                    /\ q.res.cookie = NoCookie
                    /\ q.pc = "done"
                       => /\ q.res.status = 400
                          /\ q.res.body.errors = q.errors
                          /\ q.res.body.data = NoToken

\* a login whose handler ran behind its validators, beside a register refused
\* with 400
C24_Witness ==
    \E r1, r2 \in Reqs :
        /\ req[r1].via = "route" /\ req[r1].kind = "register"
        /\ req[r1].pc = "done" /\ req[r1].res.status = 400
        /\ DOMAIN req[r1].errors # {}
        /\ req[r2].via = "route" /\ req[r2].kind = "login"
        /\ req[r2].handled /\ req[r2].pc = "done" /\ req[r2].res.status = 200

\* C25: registration is all-or-nothing: a register request answered with 500 has
\* left no User row and no Token Ledger row of its own behind.
C25_RegistrationAllOrNothing ==
    \A r \in Reqs :
        LET q == req[r]
        IN (q.kind = "register" /\ q.pc = "done" /\ q.res.status = 500)
           => /\ ~q.wroteToken
              /\ \A u \in users : ~(q.wroteUser /\ u._id = q.user._id)

\* C26: the access token issued by a successful refresh carries the userId of the
\* Token Ledger row that holds the presented refresh token, although the handler
\* takes the userId from the token's payload and never reads the row.
C26_RefreshedTokenOwner ==
    \A r \in Reqs :
        LET q == req[r]
        IN (q.kind = "refresh" /\ q.pc = "done" /\ q.res.status = 200)
           => /\ \E row \in tokens : row.token = q.cookie
              /\ \A row \in tokens :
                    row.token = q.cookie
                    => /\ q.accessToken.userId = row.userId
                       /\ q.cookie.userId = row.userId
                       /\ verifyAccessToken(q.accessToken, q.at).payload.userId = row.userId

\* a refresh answered with 200 while the ledger holds rows of two users
C26_Witness ==
    /\ \E t1, t2 \in tokens : t1.userId # t2.userId
    /\ \E r \in Reqs :
          /\ req[r].kind = "refresh" /\ req[r].pc = "done" /\ req[r].res.status = 200
          /\ \E row \in tokens : row.token = req[r].cookie /\ row.userId = 2

\* the row belongs to a User row and holds a refresh token issued for that user
rowOfItsUser(row) ==
    /\ \E u \in users : u._id = row.userId
    /\ row.token.kind = "jwt"
    /\ row.token.sub = "refreshToken"
    /\ row.token.userId = row.userId
    /\ row.token.exp = row.token.iat + JWT_REFRESH_TOKEN_EXPIRY

loginWritesNoUser ==
    \A r \in Reqs :
        (req'[r] # req[r] /\ "login" \in {req[r].kind, req'[r].kind})
        => /\ users' = users
           /\ (req'[r].kind = "login" /\ req'[r].res.status = 401) => tokens' = tokens

\* C28: login never writes to the Credential Store, and a login answered with 401
\* (unknown email or wrong password) issues no token, inserts no Token Ledger row
\* and sets no refreshToken cookie.
C28_LoginReadsOnly ==
    /\ [][loginWritesNoUser]_vars
    /\ [](\A r \in Reqs :
            LET q == req[r]
            IN q.kind = "login"
               => /\ ~q.wroteUser
                  /\ (q.pc = "done" /\ q.res.status = 401)
                     => /\ q.accessToken = NoToken /\ q.refreshToken = NoToken
                        /\ q.res.body.accessToken = NoToken
                        /\ q.res.body.data = NoToken
                        /\ q.res.cookie = NoCookie
                        /\ ~q.wroteToken)

\* a login refused with 401 for a wrong password of a registered user
C28_Witness ==
    \E r \in Reqs :
        /\ req[r].kind = "login" /\ req[r].pc = "done" /\ req[r].res.status = 401
        /\ findOneUser(req[r].email) # NoUser
        /\ ~compare(req[r].password, findOneUser(req[r].email).password)

\* C29: the server mounts the /api/v1 routes and starts listening only after the
\* database connection has been established, and whenever connecting to the
\* database fails the process exits with code 1 and never listens.
C29_StartupOrdering ==
    /\ (proc.mounted \/ proc.listening) => (proc.established /\ ~proc.connectFailed)
    /\ proc.listening => proc.mounted
    /\ proc.accepted > 0 => proc.established
    /\ proc.pc = "connecting" => (~proc.mounted /\ ~proc.listening)
    /\ proc.connectFailed
       => /\ proc.exited /\ proc.code = 1
          /\ ~proc.mounted /\ ~proc.listening /\ proc.accepted = 0

\* mongoose.connect has rejected: the process is gone with code 1
C29_Witness ==
    /\ proc.uri # ""
    /\ proc.connectFailed
    /\ proc.exited /\ proc.code = 1

\* after a signal the server takes no further request
stopsAccepting == proc.signals > 0 => proc'.accepted = proc.accepted

\* C30: after SIGINT or SIGTERM the process stops accepting new requests, then
\* disconnects from the database, then exits; the process eventually exits after
\* every shutdown signal, also when disconnecting from the database fails.
C30_GracefulShutdown ==
    /\ [][stopsAccepting]_vars
    /\ []((proc.exited /\ proc.code = 0) => proc.db = "disconnected")
    /\ (proc.signals > 0) ~> proc.exited

====
